---- MODULE Spec2Model ----
(***************************************************************************)
(* The Range and Content-Range header codecs of hyper                      *)
(* (src/header/common/range.rs, src/header/common/content_range.rs).       *)
(*                                                                         *)
(* A header field is either a typed value that is formatted to its wire    *)
(* string (Display::fmt) or a raw wire string that is parsed               *)
(* (FromStr::from_str).  Strings are sequences of one-character strings.   *)
(* A u64 is kept exactly, as its sequence of decimal limbs (most           *)
(* significant first, no leading zero, zero being <<0>>), so that the      *)
(* 2^64-1 boundary of the integer parser is the real one.                  *)
(***************************************************************************)
EXTENDS Integers, Sequences, FiniteSets, TLC

VARIABLES pc, value, raw, result

vars == <<pc, value, raw, result>>

(***************************************************************************)
(* Bounds of the model.                                                    *)
(***************************************************************************)
\* the small u64 samples are 0..MaxSmall (beside 10 and u64::MAX)
MaxSmall == 2

(***************************************************************************)
(* u64 and its decimal text.                                               *)
(***************************************************************************)
DigitChars == <<"0", "1", "2", "3", "4", "5", "6", "7", "8", "9">>

\* u64::MAX = 18446744073709551615
U64_MAX == <<1,8,4,4,6,7,4,4,0,7,3,7,0,9,5,5,1,6,1,5>>

U64_ZERO == <<0>>

\* a < b on u64
U64Less(a, b) ==
    \/ Len(a) < Len(b)
    \/ /\ Len(a) = Len(b)
       /\ \E i \in 1..Len(a) :
            /\ a[i] < b[i]
            /\ \A j \in 1..(i - 1) : a[j] = b[j]

\* the u64 of a small natural number
RECURSIVE U64Of(_)
U64Of(n) == IF n < 10 THEN <<n>> ELSE Append(U64Of(n \div 10), n % 10)

\* Option<T>
None == [some |-> FALSE]

Some(v) == [some |-> TRUE, v |-> v]

\* Result<T, ()>
Err == [ok |-> FALSE]

Ok(v) == [ok |-> TRUE, val |-> v]

\* u64::checked_mul(10): None on overflow
CheckedMul10(v) ==
    LET r == IF v = U64_ZERO THEN U64_ZERO ELSE Append(v, 0)
    IN  IF U64Less(U64_MAX, r) THEN None ELSE Some(r)

\* u64::checked_add(d) for a digit d: None on overflow
RECURSIVE CheckedAddDigit(_, _)
CheckedAddDigit(v, d) ==
    LET n    == Len(v)
        last == v[n] + d
        r    == IF last < 10
                  THEN [v EXCEPT ![n] = last]
                  ELSE IF n = 1
                         THEN <<1, last - 10>>
                         ELSE LET hi == CheckedAddDigit(SubSeq(v, 1, n - 1), 1)
                              IN  Append(hi.v, last - 10)
    IN  IF U64Less(U64_MAX, r) THEN None ELSE Some(r)

\* char::to_digit(10)
ToDigit(c) ==
    IF \E d \in 0..9 : DigitChars[d + 1] = c
      THEN Some(CHOOSE d \in 0..9 : DigitChars[d + 1] = c)
      ELSE None

\* the digit loop of u64::from_str: result = result * 10 + digit, checked
RECURSIVE ParseDigits(_, _)
ParseDigits(s, acc) ==
    IF Len(s) = 0
      THEN Ok(acc)
      ELSE LET x == ToDigit(Head(s))
           IN  IF ~x.some
                 THEN Err
                 ELSE LET m == CheckedMul10(acc)
                      IN  IF ~m.some
                            THEN Err
                            ELSE LET a == CheckedAddDigit(m.v, x.v)
                                 IN  IF ~a.some
                                       THEN Err
                                       ELSE ParseDigits(Tail(s), a.v)

\* str::parse::<u64>(): an optional leading '+', then one or more digits
ParseU64(s) ==
    IF Len(s) = 0
      THEN Err
      ELSE LET digits == IF Head(s) = "+" THEN Tail(s) ELSE s
           IN  IF Len(digits) = 0 THEN Err ELSE ParseDigits(digits, U64_ZERO)

\* format_args!("{}", v) of a u64
FmtU64(v) == [i \in 1..Len(v) |-> DigitChars[v[i] + 1]]

(***************************************************************************)
(* str helpers.                                                            *)
(***************************************************************************)
\* str::starts_with
StartsWith(s, prefix) ==
    /\ Len(s) >= Len(prefix)
    /\ SubSeq(s, 1, Len(prefix)) = prefix

\* str::split(c).collect::<Vec<_>>(): n occurrences of c give n+1 parts
RECURSIVE Split(_, _)
Split(s, c) ==
    IF \A i \in 1..Len(s) : s[i] # c
      THEN <<s>>
      ELSE LET i == CHOOSE k \in 1..Len(s) :
                        /\ s[k] = c
                        /\ \A j \in 1..(k - 1) : s[j] # c
           IN  <<SubSeq(s, 1, i - 1)>> \o Split(SubSeq(s, i + 1, Len(s)), c)

(***************************************************************************)
(* range.rs                                                                *)
(***************************************************************************)
ByteRange(start, end) == [type |-> "ByteRange", start |-> start, end |-> end]

RangePrefix == <<"b", "y", "t", "e", "s", "=">>

\* parse_part with the empty segment taken for an error
parse_part_Mandatory(s) ==
    LET v == ParseU64(s)
    IN  IF v.ok THEN Ok(Some(v.val)) ELSE Err

\* fn parse_part(s: &str) -> Result<Option<u64>, ()>
parse_part(s) ==
    IF Len(s) = 0
      THEN Ok(None)
      ELSE LET v == ParseU64(s)
           IN  IF v.ok THEN Ok(Some(v.val)) ELSE Err

\* from_str without the end < start check
ByteRange_from_str_NoOrder(s0) ==
    IF ~StartsWith(s0, RangePrefix)
      THEN Err
      ELSE LET s     == SubSeq(s0, Len(RangePrefix) + 1, Len(s0))
               parts == Split(s, "-")
           IN  IF Len(parts) # 2
                 THEN Err
                 ELSE LET start == parse_part(parts[1])
                          end   == parse_part(parts[2])
                      IN  IF ~start.ok
                            THEN Err
                            ELSE IF ~end.ok
                              THEN Err
                              ELSE Ok(ByteRange(start.val, end.val))

\* from_str that asks for at least two parts and reads the first two
ByteRange_from_str_FirstPair(s0) ==
    IF ~StartsWith(s0, RangePrefix)
      THEN Err
      ELSE LET s     == SubSeq(s0, Len(RangePrefix) + 1, Len(s0))
               parts == Split(s, "-")
           IN  IF Len(parts) < 2
                 THEN Err
                 ELSE LET start == parse_part(parts[1])
                          end   == parse_part(parts[2])
                      IN  IF ~start.ok
                            THEN Err
                            ELSE IF ~end.ok
                              THEN Err
                              ELSE IF /\ start.val.some
                                      /\ end.val.some
                                      /\ U64Less(end.val.v, start.val.v)
                                THEN Err
                                ELSE Ok(ByteRange(start.val, end.val))

\* impl FromStr for ByteRange
ByteRange_from_str(s0) ==
    IF ~StartsWith(s0, RangePrefix)
      THEN Err
      ELSE LET s     == SubSeq(s0, Len(RangePrefix) + 1, Len(s0))
               parts == Split(s, "-")
           IN  IF Len(parts) # 2
                 THEN Err
                 ELSE LET start == parse_part(parts[1])
                          end   == parse_part(parts[2])
                      IN  IF ~start.ok
                            THEN Err
                            ELSE IF ~end.ok
                              THEN Err
                              ELSE IF /\ start.val.some
                                      /\ end.val.some
                                      /\ U64Less(end.val.v, start.val.v)
                                THEN Err
                                ELSE Ok(ByteRange(start.val, end.val))

\* fmt that writes the dash inside the start block
ByteRange_fmt_DashAfterStart(self) ==
    RangePrefix
      \o (IF self.start.some THEN FmtU64(self.start.v) \o <<"-">> ELSE <<>>)
      \o (IF self.end.some THEN FmtU64(self.end.v) ELSE <<>>)

\* impl Display for ByteRange
ByteRange_fmt(self) ==
    RangePrefix
      \o (IF self.start.some THEN FmtU64(self.start.v) ELSE <<>>)
      \o <<"-">>
      \o (IF self.end.some THEN FmtU64(self.end.v) ELSE <<>>)

(***************************************************************************)
(* content_range.rs                                                        *)
(***************************************************************************)
Satisfied(first_byte, last_byte, instance_length) ==
    [type |-> "Satisfied", first_byte |-> first_byte, last_byte |-> last_byte,
     instance_length |-> instance_length]

Unsatisfied(instance_length) ==
    [type |-> "Unsatisfied", instance_length |-> instance_length]

ContentRangePrefix == <<"b", "y", "t", "e", "s", " ">>

\* from_str that takes an unknown length of the unsatisfied form for 0
ContentRangeSpec_from_str_ZeroLength(s0) ==
    IF ~StartsWith(s0, ContentRangePrefix)
      THEN Err
      ELSE LET s     == SubSeq(s0, Len(ContentRangePrefix) + 1, Len(s0))
               parts == Split(s, "/")
           IN  IF Len(parts) # 2
                 THEN Err
                 ELSE LET len == IF parts[2] = <<"*">>
                                   THEN Ok(None)
                                   ELSE LET v == ParseU64(parts[2])
                                        IN  IF v.ok THEN Ok(Some(v.val)) ELSE Err
                      IN  IF ~len.ok
                            THEN Err
                            ELSE IF parts[1] = <<"*">>
                              THEN IF len.val.some
                                     THEN Ok(Unsatisfied(len.val.v))
                                     ELSE Ok(Unsatisfied(U64_ZERO))
                              ELSE LET range == Split(parts[1], "-")
                                   IN  IF Len(range) # 2
                                         THEN Err
                                         ELSE LET first == ParseU64(range[1])
                                                  last  == ParseU64(range[2])
                                              IN  IF ~first.ok
                                                    THEN Err
                                                    ELSE IF ~last.ok
                                                      THEN Err
                                                      ELSE Ok(Satisfied(first.val,
                                                              last.val, len.val))

\* from_str with the order check of the Range header
ContentRangeSpec_from_str_Ordered(s0) ==
    IF ~StartsWith(s0, ContentRangePrefix)
      THEN Err
      ELSE LET s     == SubSeq(s0, Len(ContentRangePrefix) + 1, Len(s0))
               parts == Split(s, "/")
           IN  IF Len(parts) # 2
                 THEN Err
                 ELSE LET len == IF parts[2] = <<"*">>
                                   THEN Ok(None)
                                   ELSE LET v == ParseU64(parts[2])
                                        IN  IF v.ok THEN Ok(Some(v.val)) ELSE Err
                      IN  IF ~len.ok
                            THEN Err
                            ELSE IF parts[1] = <<"*">>
                              THEN IF len.val.some
                                     THEN Ok(Unsatisfied(len.val.v))
                                     ELSE Err
                              ELSE LET range == Split(parts[1], "-")
                                   IN  IF Len(range) # 2
                                         THEN Err
                                         ELSE LET first == ParseU64(range[1])
                                                  last  == ParseU64(range[2])
                                              IN  IF ~first.ok
                                                    THEN Err
                                                    ELSE IF ~last.ok
                                                      THEN Err
                                                      ELSE IF U64Less(last.val, first.val)
                                                        THEN Err
                                                        ELSE Ok(Satisfied(first.val,
                                                                last.val, len.val))

\* from_str that asks for at least two parts and reads the first two
ContentRangeSpec_from_str_FirstSlash(s0) ==
    IF ~StartsWith(s0, ContentRangePrefix)
      THEN Err
      ELSE LET s     == SubSeq(s0, Len(ContentRangePrefix) + 1, Len(s0))
               parts == Split(s, "/")
           IN  IF Len(parts) < 2
                 THEN Err
                 ELSE LET len == IF parts[2] = <<"*">>
                                   THEN Ok(None)
                                   ELSE LET v == ParseU64(parts[2])
                                        IN  IF v.ok THEN Ok(Some(v.val)) ELSE Err
                      IN  IF ~len.ok
                            THEN Err
                            ELSE IF parts[1] = <<"*">>
                              THEN IF len.val.some
                                     THEN Ok(Unsatisfied(len.val.v))
                                     ELSE Err
                              ELSE LET range == Split(parts[1], "-")
                                   IN  IF Len(range) # 2
                                         THEN Err
                                         ELSE LET first == ParseU64(range[1])
                                                  last  == ParseU64(range[2])
                                              IN  IF ~first.ok
                                                    THEN Err
                                                    ELSE IF ~last.ok
                                                      THEN Err
                                                      ELSE Ok(Satisfied(first.val,
                                                              last.val, len.val))

\* impl FromStr for ContentRangeSpec
ContentRangeSpec_from_str(s0) ==
    IF ~StartsWith(s0, ContentRangePrefix)
      THEN Err
      ELSE LET s     == SubSeq(s0, Len(ContentRangePrefix) + 1, Len(s0))
               parts == Split(s, "/")
           IN  IF Len(parts) # 2
                 THEN Err
                 ELSE LET len == IF parts[2] = <<"*">>
                                   THEN Ok(None)
                                   ELSE LET v == ParseU64(parts[2])
                                        IN  IF v.ok THEN Ok(Some(v.val)) ELSE Err
                      IN  IF ~len.ok
                            THEN Err
                            ELSE IF parts[1] = <<"*">>
                              THEN IF len.val.some
                                     THEN Ok(Unsatisfied(len.val.v))
                                     ELSE Err
                              ELSE LET range == Split(parts[1], "-")
                                   IN  IF Len(range) # 2
                                         THEN Err
                                         ELSE LET first == ParseU64(range[1])
                                                  last  == ParseU64(range[2])
                                              IN  IF ~first.ok
                                                    THEN Err
                                                    ELSE IF ~last.ok
                                                      THEN Err
                                                      ELSE Ok(Satisfied(first.val,
                                                              last.val, len.val))

\* fmt that writes nothing for an unknown instance length
ContentRangeSpec_fmt_NoStar(self) ==
    IF self.type = "Satisfied"
      THEN ContentRangePrefix
             \o FmtU64(self.first_byte) \o <<"-">> \o FmtU64(self.last_byte)
             \o <<"/">>
             \o (IF self.instance_length.some
                   THEN FmtU64(self.instance_length.v)
                   ELSE <<>>)
      ELSE ContentRangePrefix \o <<"*", "/">> \o FmtU64(self.instance_length)

\* impl Display for ContentRangeSpec
ContentRangeSpec_fmt(self) ==
    IF self.type = "Satisfied"
      THEN ContentRangePrefix
             \o FmtU64(self.first_byte) \o <<"-">> \o FmtU64(self.last_byte)
             \o <<"/">>
             \o (IF self.instance_length.some
                   THEN FmtU64(self.instance_length.v)
                   ELSE <<"*">>)
      ELSE ContentRangePrefix \o <<"*", "/">> \o FmtU64(self.instance_length)

(***************************************************************************)
(* The header field: a typed value to format, or a raw value to parse.     *)
(***************************************************************************)
NoValue == [type |-> "NoValue"]

NoResult == [hdr |-> "none"]

\* the u64 values the typed values are built from
Samples == {U64Of(n) : n \in 0..MaxSmall} \cup {U64Of(10), U64_MAX}

OptSamples == {None} \cup {Some(v) : v \in Samples}

\* every ByteRange a caller can construct (the fields are public: the
\* end >= start order is not enforced by construction)
ByteRangeValues == {ByteRange(s, e) : s \in OptSamples, e \in OptSamples}

ContentRangeValues ==
    {Satisfied(a, b, l) : a \in Samples, b \in Samples, l \in OptSamples}
      \cup {Unsatisfied(l) : l \in Samples}

\* the raw values of the test tables of range.rs and content_range.rs
TableInputs ==
    {<<"b", "y", "t", "e", "s", "=", "0", "-", "4", "9", "9">>,
     <<"b", "y", "t", "e", "s", "=", "0", "-", "0">>,
     <<"b", "y", "t", "e", "s", "=", "9", "9", "-">>,
     <<"b", "y", "t", "e", "s", "=", "-", "9", "9">>,
     <<"b", "y", "t", "e", "s", "=">>,
     <<"x", "=", "0", "-", "4", "9", "9">>,
     <<>>,
     <<"b", "y", "t", "e", "s", "=", "5", "-", "4">>,
     <<"b", "y", "t", "e", "s", "=", "0", "-", "4", "9", "9", ",", "5", "1", "0", "-", "5", "2", "0">>,
     <<"b", "y", "t", "e", "s", " ", "0", "-", "4", "9", "9", "/", "5", "0", "0">>,
     <<"b", "y", "t", "e", "s", " ", "0", "-", "4", "9", "9">>,
     <<"b", "y", "t", "e", "s">>}

Prefixes ==
    {<<>>, <<"b", "y", "t", "e", "s">>, RangePrefix, ContentRangePrefix,
     <<"x", "=">>}

\* the segments raw values are assembled from: nothing, digits, 10, a leading
\* zero, a sign, u64::MAX, u64::MAX + 1, the star and a letter
Segments ==
    {<<>>} \cup {<<DigitChars[n + 1]>> : n \in 0..MaxSmall}
      \cup {<<"1", "0">>, <<"0", "1">>, <<"+", "1">>,
            FmtU64(U64_MAX),
            <<"1","8","4","4","6","7","4","4","0","7","3","7","0","9","5","5","1","6","1","6">>,
            <<"*">>, <<"x">>}

Separators == {<<>>, <<"-">>, <<"/">>, <<",">>, <<" ">>}

\* the bounds of a range-spec of a list: nothing or a decimal number
ListBounds ==
    {<<>>} \cup {<<DigitChars[n + 1]>> : n \in 0..MaxSmall}
      \cup {<<"1", "0">>, FmtU64(U64_MAX)}

\* Range values that list two range-specs: "bytes=a-b,c-d"
RangeLists ==
    {RangePrefix \o a \o <<"-">> \o b \o <<",">> \o c \o <<"-">> \o d :
       a \in ListBounds, b \in ListBounds, c \in ListBounds, d \in ListBounds}

RawInputs ==
    TableInputs
      \cup RangeLists
      \cup {p \o a \o s1 \o b \o s2 \o c :
              p \in Prefixes, a \in Segments, s1 \in Separators,
              b \in Segments, s2 \in Separators, c \in Segments}

Init ==
    /\ result = NoResult
    /\ \/ /\ pc = "value"
          /\ value \in ByteRangeValues \cup ContentRangeValues
          /\ raw = <<>>
       \/ /\ pc = "wire"
          /\ value = NoValue
          /\ raw \in RawInputs

\* Display::fmt of a Range header
FormatRange ==
    /\ pc = "value"
    /\ value.type = "ByteRange"
    /\ raw' = ByteRange_fmt(value)
    /\ pc' = "wire"
    /\ UNCHANGED <<value, result>>

\* Display::fmt of a Content-Range header
FormatContentRange ==
    /\ pc = "value"
    /\ value.type \in {"Satisfied", "Unsatisfied"}
    /\ raw' = ContentRangeSpec_fmt(value)
    /\ pc' = "wire"
    /\ UNCHANGED <<value, result>>

\* FromStr::from_str of a Range header
ParseRange ==
    /\ pc = "wire"
    /\ result' = [hdr |-> "Range", res |-> ByteRange_from_str(raw)]
    /\ pc' = "parsed"
    /\ UNCHANGED <<value, raw>>

\* FromStr::from_str of a Content-Range header
ParseContentRange ==
    /\ pc = "wire"
    /\ result' = [hdr |-> "Content-Range", res |-> ContentRangeSpec_from_str(raw)]
    /\ pc' = "parsed"
    /\ UNCHANGED <<value, raw>>

Next ==
    \/ FormatRange
    \/ FormatContentRange
    \/ ParseRange
    \/ ParseContentRange

Spec == Init /\ [][Next]_vars

(***************************************************************************)
(* Text of the properties: the decimal grammar 1*DIGIT and its value,      *)
(* stated without the parser.                                              *)
(***************************************************************************)
\* s is 1*DIGIT
IsDigits(s) ==
    /\ Len(s) >= 1
    /\ \A i \in 1..Len(s) : \E d \in 0..9 : DigitChars[d + 1] = s[i]

CharDigit(c) == CHOOSE d \in 0..9 : DigitChars[d + 1] = c

RECURSIVE StripZeros(_)
StripZeros(v) == IF Len(v) > 1 /\ Head(v) = 0 THEN StripZeros(Tail(v)) ELSE v

\* the number a 1*DIGIT string denotes
DecValue(s) == StripZeros([i \in 1..Len(s) |-> CharDigit(s[i])])

\* s is 1*DIGIT and denotes a value of at most 2^64-1
IsNumber(s) == IsDigits(s) /\ ~U64Less(U64_MAX, DecValue(s))

\* s without its sign, if it has one
Unsigned(s) == IF Len(s) > 0 /\ Head(s) = "+" THEN Tail(s) ELSE s

\* the number of occurrences of c in s
Count(s, c) == Cardinality({i \in 1..Len(s) : s[i] = c})

\* s after its first Len(prefix) characters
After(s, prefix) == SubSeq(s, Len(prefix) + 1, Len(s))

ParsedRange == pc = "parsed" /\ result.hdr = "Range"

ParsedContentRange == pc = "parsed" /\ result.hdr = "Content-Range"

\* the parts of a Range value around '-' and of a Content-Range value around '/'
RangeParts == Split(After(raw, RangePrefix), "-")

ContentParts == Split(After(raw, ContentRangePrefix), "/")

\* a byte-range-spec or suffix-byte-range-spec: [1*DIGIT] "-" [1*DIGIT]
IsRangeSpec(s) ==
    LET p == Split(s, "-")
    IN  /\ Len(p) = 2
        /\ p[1] = <<>> \/ IsDigits(p[1])
        /\ p[2] = <<>> \/ IsDigits(p[2])

\* a comma-separated list of two or more range-specs
IsRangeList(s) ==
    LET specs == Split(s, ",")
    IN  /\ Len(specs) >= 2
        /\ \A i \in 1..Len(specs) : IsRangeSpec(specs[i])

ValidByteRange(x) ==
    (x.start.some /\ x.end.some) => ~U64Less(x.end.v, x.start.v)

(***************************************************************************)
(* The properties.                                                         *)
(***************************************************************************)

\* C1: Range round trip. Parsing the string that Format gives for a ByteRange
\* whose bounds are None or Some(v), v in 0..2^64-1, and whose end is not
\* below its start when both are present, succeeds and gives the ByteRange
\* back ({start: None, end: None} included).
C1_RangeRoundTrip ==
    (ParsedRange /\ value.type = "ByteRange" /\ ValidByteRange(value))
      => result.res = Ok(value)

C1_Witness ==
    /\ ParsedRange
    /\ value = ByteRange(None, None)
    /\ raw = <<"b", "y", "t", "e", "s", "=", "-">>
    /\ result.res = Ok(value)

\* C2: Content-Range round trip. Parsing the string that Format gives for any
\* Satisfied{first_byte, last_byte, instance_length} (last_byte < first_byte
\* included, instance_length None or Some) or Unsatisfied{instance_length}
\* succeeds and gives the value back, of the same variant.
C2_ContentRangeRoundTrip ==
    (ParsedContentRange /\ value.type \in {"Satisfied", "Unsatisfied"})
      => /\ result.res = Ok(value)
         /\ result.res.val.type = value.type

C2_Witness ==
    /\ ParsedContentRange
    /\ value = Satisfied(U64_MAX, U64_ZERO, None)
    /\ result.res = Ok(value)

\* C3: Range order. A ByteRange returned by a successful Range parse with both
\* bounds present has end >= start; a value whose two numeric bounds have
\* end < start (bytes=5-4) is malformed and one with end = start (bytes=0-0)
\* is accepted.
C3_RangeOrder ==
    ParsedRange =>
      /\ (/\ result.res.ok
          /\ result.res.val.start.some
          /\ result.res.val.end.some)
           => ~U64Less(result.res.val.end.v, result.res.val.start.v)
      /\ (/\ StartsWith(raw, RangePrefix)
          /\ Len(RangeParts) = 2
          /\ IsNumber(RangeParts[1])
          /\ IsNumber(RangeParts[2]))
           => IF U64Less(DecValue(RangeParts[2]), DecValue(RangeParts[1]))
                THEN result.res = Err
                ELSE result.res = Ok(ByteRange(Some(DecValue(RangeParts[1])),
                                               Some(DecValue(RangeParts[2]))))
      /\ raw = <<"b", "y", "t", "e", "s", "=", "5", "-", "4">> => result.res = Err
      /\ raw = <<"b", "y", "t", "e", "s", "=", "0", "-", "0">>
           => result.res = Ok(ByteRange(Some(U64_ZERO), Some(U64_ZERO)))

C3_Witness ==
    /\ ParsedRange
    /\ raw = <<"b", "y", "t", "e", "s", "=", "5", "-", "4">>
    /\ result.res = Err

\* C4: multi-range. A Range value with more than one '-' after "bytes=" is
\* malformed, and so is every comma-separated list of two or more range-specs
\* (bytes=0-499,510-520): no first range, no partial result.
C4_MultiRangeRejected ==
    (/\ ParsedRange
     /\ StartsWith(raw, RangePrefix)
     /\ \/ Count(After(raw, RangePrefix), "-") > 1
        \/ IsRangeList(After(raw, RangePrefix)))
      => result.res = Err

C4_Witness ==
    /\ ParsedRange
    /\ raw = <<"b", "y", "t", "e", "s", "=", "0", "-", "4", "9", "9", ",", "5", "1", "0", "-", "5", "2", "0">>
    /\ IsRangeList(After(raw, RangePrefix))
    /\ result.res = Err

C6_OrderAsymmetry ==
    (/\ ParsedContentRange
     /\ StartsWith(raw, ContentRangePrefix)
     /\ Len(ContentParts) = 2
     /\ ContentParts[2] = <<"*">> \/ IsNumber(ContentParts[2])
     /\ Len(Split(ContentParts[1], "-")) = 2
     /\ IsNumber(Split(ContentParts[1], "-")[1])
     /\ IsNumber(Split(ContentParts[1], "-")[2])
     /\ U64Less(DecValue(Split(ContentParts[1], "-")[2]),
                DecValue(Split(ContentParts[1], "-")[1])))
      => LET a == Split(ContentParts[1], "-")[1]
             b == Split(ContentParts[1], "-")[2]
             l == IF ContentParts[2] = <<"*">>
                    THEN None
                    ELSE Some(DecValue(ContentParts[2]))
         IN  /\ result.res = Ok(Satisfied(DecValue(a), DecValue(b), l))
             /\ ByteRange_from_str(RangePrefix \o a \o <<"-">> \o b) = Err

C6_Witness ==
    /\ ParsedContentRange
    /\ value = NoValue
    /\ raw = <<"b", "y", "t", "e", "s", " ", "1", "0", "-", "1", "/", "2">>
    /\ result.res = Ok(Satisfied(U64Of(10), U64Of(1), Some(U64Of(2))))

\* C7: Content-Range framing. A value that does not start with "bytes " (the
\* empty string and the bare word "bytes" included) or whose remainder does
\* not hold exactly one '/' ("bytes 0-499") is malformed: no Satisfied and no
\* Unsatisfied comes of it.
C7_ContentRangeFraming ==
    (/\ ParsedContentRange
     /\ \/ ~StartsWith(raw, ContentRangePrefix)
        \/ Count(After(raw, ContentRangePrefix), "/") # 1)
      => result.res = Err

C7_Witness ==
    /\ ParsedContentRange
    /\ raw = <<"b", "y", "t", "e", "s", " ", "0", "-", "4", "9", "9">>
    /\ result.res = Err

\* C8: empty bounds. "bytes=-" parses to ByteRange{start: None, end: None},
\* "bytes=" (no '-') is malformed, and one missing bound is accepted:
\* "bytes=99-" gives start Some(99), end None and "bytes=-99" gives start
\* None, end Some(99).
C8_EmptyBounds ==
    ParsedRange =>
      /\ raw = <<"b", "y", "t", "e", "s", "=", "-">> => result.res = Ok(ByteRange(None, None))
      /\ raw = RangePrefix => result.res = Err
      /\ raw = <<"b", "y", "t", "e", "s", "=", "9", "9", "-">> => result.res = Ok(ByteRange(Some(<<9, 9>>), None))
      /\ raw = <<"b", "y", "t", "e", "s", "=", "-", "9", "9">> => result.res = Ok(ByteRange(None, Some(<<9, 9>>)))
      /\ (/\ StartsWith(raw, RangePrefix)
          /\ Len(RangeParts) = 2
          /\ IsNumber(RangeParts[1])
          /\ RangeParts[2] = <<>>)
           => result.res = Ok(ByteRange(Some(DecValue(RangeParts[1])), None))
      /\ (/\ StartsWith(raw, RangePrefix)
          /\ Len(RangeParts) = 2
          /\ RangeParts[1] = <<>>
          /\ IsNumber(RangeParts[2]))
           => result.res = Ok(ByteRange(None, Some(DecValue(RangeParts[2]))))

C8_Witness ==
    /\ ParsedRange
    /\ value = NoValue
    /\ raw = <<"b", "y", "t", "e", "s", "=", "-">>
    /\ result.res = Ok(ByteRange(None, None))

\* C9: Range segments. Each of the two segments around '-' is empty (None) or
\* 1*DIGIT with a value of at most 2^64-1 (Some of that value); a segment with
\* a character that is no digit (sign, space, comma, letter) or with a value
\* above 2^64-1 makes the value malformed, so an accepted value matches
\* "bytes=" [1*DIGIT] "-" [1*DIGIT] and its numbers are those written.
C9_SegmentValidity ==
    ParsedRange =>
      /\ result.res.ok
           => /\ StartsWith(raw, RangePrefix)
              /\ Len(RangeParts) = 2
              /\ \A i \in 1..2 : RangeParts[i] = <<>> \/ IsNumber(RangeParts[i])
              /\ result.res.val.start
                   = IF RangeParts[1] = <<>>
                       THEN None
                       ELSE Some(DecValue(RangeParts[1]))
              /\ result.res.val.end
                   = IF RangeParts[2] = <<>>
                       THEN None
                       ELSE Some(DecValue(RangeParts[2]))
      /\ (/\ StartsWith(raw, RangePrefix)
          /\ Len(RangeParts) = 2
          /\ \E i \in 1..2 : RangeParts[i] # <<>> /\ ~IsNumber(RangeParts[i]))
           => result.res = Err

\* C9 holds of every value in which no segment starts with a '+' sign.
SegmentValidityUnsigned ==
    (ParsedRange /\ \A i \in 1..Len(RangeParts) : Unsigned(RangeParts[i]) = RangeParts[i])
      => C9_SegmentValidity

\* C10: Content-Range positions. A range part other than '*' has to split on
\* '-' into exactly two sub-segments, each 1*DIGIT: an empty or open bound
\* ("bytes -499/500", "bytes 0-/500", "bytes -/500") or a range part with no
\* or several '-' is malformed.
C10_MandatoryPositions ==
    (/\ ParsedContentRange
     /\ StartsWith(raw, ContentRangePrefix)
     /\ Len(ContentParts) = 2
     /\ ContentParts[1] # <<"*">>)
      => LET range == Split(ContentParts[1], "-")
         IN  /\ result.res.ok
                  => /\ Len(range) = 2
                     /\ IsNumber(range[1])
                     /\ IsNumber(range[2])
             /\ (\/ Len(range) # 2
                 \/ range[1] = <<>>
                 \/ range[2] = <<>>)
                  => result.res = Err

\* C10 holds of every value in which no sub-segment starts with a '+' sign.
MandatoryPositionsUnsigned ==
    (/\ ParsedContentRange
     /\ StartsWith(raw, ContentRangePrefix)
     /\ Len(ContentParts) = 2
     /\ \A i \in 1..Len(Split(ContentParts[1], "-")) :
          Unsigned(Split(ContentParts[1], "-")[i]) = Split(ContentParts[1], "-")[i])
      => C10_MandatoryPositions

====
